---- MODULE Spec2Model ----
(***************************************************************************)
(* Model of readwise_to_slack.py: the ReadwiseSlackBot (paginated fetch of *)
(* highlights and books, date and quality filters, selection, book         *)
(* resolution, formatting, Slack notification) and main()'s exit status.   *)
(***************************************************************************)
EXTENDS Integers, Sequences, FiniteSets, TLC

VARIABLES
    argv,              \* the command line, as argparse sees it
    env,               \* READWISE_TOKEN / SLACK_WEBHOOK_URL present?
    server,            \* the highlights endpoint: a sequence of pages
    bookServer,        \* the books endpoint: a sequence of pages
    now,               \* datetime.now() of the run
    pc,                \* position of the run
    caller,            \* who called get_readwise_highlights
    exc,               \* the exception propagating to main(), "" when none
    bot,               \* the ReadwiseSlackBot's fields
    url, params, limit, all_highlights, all_books,   \* locals of the fetches
    highlights, books, quality_highlights,           \* locals of the orchestrator
    random_highlight, book_info, book_title, message, success,
    net,               \* observation: the requests made, the return taken
    exit_status,       \* the status given to sys.exit, -1 while running
    fin, fnow, fout    \* input, clock and results of a directly applied filter

vars == << argv, env, server, bookServer, now, pc, caller, exc, bot,
           url, params, limit, all_highlights, all_books,
           highlights, books, quality_highlights,
           random_highlight, book_info, book_title, message, success,
           net, exit_status, fin, fnow, fout >>

runvars == << argv, env, server, bookServer, now, pc, caller, exc, bot,
              url, params, limit, all_highlights, all_books,
              highlights, books, quality_highlights,
              random_highlight, book_info, book_title, message, success,
              net, exit_status >>

-----------------------------------------------------------------------------
(* Bounds of the model *)

MaxList == 2          \* longest list handed directly to a filter
MaxPages == 2         \* most pages a directly driven endpoint holds
MaxPageSize == 2      \* most items on one of its pages
MaxLimit == 3         \* largest limit handed to get_readwise_highlights
MaxRequests == 4      \* most GETs followed within one fetch
MaxSelect == 3        \* longest list handed directly to the selector
MaxStages == 2        \* longest list of malformed records handed to the filters

(* Constants of the program *)

MinTextLen == 20      \* len(text) >= 20
RecentDays == 730     \* (now - date_obj).days <= 730
MaxTextLen == 1000    \* len(text) > 1000
PageSizeParam == 1000 \* params = {"page_size": 1000}

-----------------------------------------------------------------------------
(* Python values.  A dict field is "missing" (key absent), "null" (None)   *)
(* or a str.  A str is abstracted to what the code reads of it: its        *)
(* leading whitespace, its body between the first and the last             *)
(* non-whitespace character, its trailing whitespace, and the marker       *)
(* phrase it embeds, if any.                                               *)

Str(lead, core, trail, marker) ==
    [kind |-> "str", lead |-> lead, core |-> core, trail |-> trail, marker |-> marker]

EmptyStr == Str(0, 0, 0, "")
MissingStr == [kind |-> "missing", lead |-> 0, core |-> 0, trail |-> 0, marker |-> ""]
NullStr == [kind |-> "null", lead |-> 0, core |-> 0, trail |-> 0, marker |-> ""]

\* dict.get(key, default): the default only when the key is absent; a key
\* holding None yields None.
dict_get(field, default) == IF field.kind = "missing" THEN default ELSE field

IsNone(v) == v.kind = "null"

\* len(s)
str_len(s) == s.lead + s.core + s.trail

\* s.strip()
str_strip(s) == [s EXCEPT !.lead = 0, !.trail = 0]

(* A created_at value: missing, null, the empty string, a string that is   *)
(* no ISO-8601 timestamp, or an ISO-8601 timestamp with its UTC offset     *)
(* suffix ("" when naive, "Z", or a numeric offset).                       *)

Stamp(kind, y, m, d, h, tz) ==
    [kind |-> kind, y |-> y, m |-> m, d |-> d, h |-> h, tz |-> tz]

MissingStamp == Stamp("missing", 0, 0, 0, 0, "")
NullStamp == Stamp("null", 0, 0, 0, 0, "")
EmptyStamp == Stamp("empty", 0, 0, 0, 0, "")
GarbageStamp == Stamp("garbage", 0, 0, 0, 0, "")
Iso(y, m, d, h, tz) == Stamp("iso", y, m, d, h, tz)

\* truthiness of a created_at value: None and "" are falsy
truthy(c) == c.kind \in {"garbage", "iso"}

\* created_at.replace('Z', '+00:00')
str_replace_Z(c) == IF c.tz = "Z" THEN [c EXCEPT !.tz = "+00:00"] ELSE c

\* datetime.fromisoformat: a ValueError unless the string is a timestamp
\* with no suffix or a numeric offset (a "Z" suffix, which older Pythons
\* reject, never reaches it: see str_replace_Z)
fromisoformat(c) ==
    IF c.kind = "iso" /\ c.tz \in {"", "+00:00", "+05:00"}
    THEN [ok |-> TRUE,
          value |-> [y |-> c.y, m |-> c.m, d |-> c.d, h |-> c.h,
                     tzinfo |-> IF c.tz = "" THEN "none" ELSE c.tz]]
    ELSE [ok |-> FALSE,
          value |-> [y |-> 0, m |-> 0, d |-> 0, h |-> 0, tzinfo |-> "none"]]

\* date_obj.replace(tzinfo=None): the wall-clock reading is kept
replace_tzinfo_none(dt) == [dt EXCEPT !.tzinfo = "none"]

IsLeap(y) == (y % 4 = 0) /\ ((y % 100 # 0) \/ (y % 400 = 0))

DaysBeforeYear(y) ==
    LET p == y - 1 IN p * 365 + (p \div 4) - (p \div 100) + (p \div 400)

DaysBeforeMonth(y, m) ==
    << 0, 31, 59, 90, 120, 151, 181, 212, 243, 273, 304, 334 >>[m]
    + (IF m > 2 /\ IsLeap(y) THEN 1 ELSE 0)

\* datetime.toordinal()
toordinal(dt) == DaysBeforeYear(dt.y) + DaysBeforeMonth(dt.y, dt.m) + dt.d

\* (a - b).days for naive datetimes: whole days, rounded down
timedelta_days(a, b) ==
    ((toordinal(a) * 24 + a.h) - (toordinal(b) * 24 + b.h)) \div 24

-----------------------------------------------------------------------------
(* Highlights and books *)

Highlight(id, book_id, text, note, created_at) ==
    [id |-> id, book_id |-> book_id, text |-> text, note |-> note,
     created_at |-> created_at]

GoodText == Str(0, 25, 0, "")

Returned(v) == [done |-> TRUE, raised |-> "", value |-> v]
Raised(e) == [done |-> TRUE, raised |-> e, value |-> << >>]
NotRun == [done |-> FALSE, raised |-> "", value |-> << >>]

-----------------------------------------------------------------------------
(* filter_highlights_by_quality *)

quality_keeps(h) ==
    str_len(str_strip(dict_get(h.text, EmptyStr))) >= MinTextLen

filter_highlights_by_quality(hs) ==
    IF \E i \in 1..Len(hs) : IsNone(hs[i].text)
    THEN Raised("AttributeError: filter_highlights_by_quality")  \* None.strip()
    ELSE Returned(SelectSeq(hs, quality_keeps))

(* filter_highlights_by_date *)

\* Faulty variant: 'recent' compares with < instead of <=
date_keeps_strict(h, policy, clock) ==
    LET parsed == fromisoformat(str_replace_Z(dict_get(h.created_at, EmptyStamp))) IN
    IF ~parsed.ok THEN FALSE
    ELSE LET days == timedelta_days(clock, replace_tzinfo_none(parsed.value))
         IN  CASE policy = "recent" -> days < RecentDays
               [] policy = "old" -> days > RecentDays
               [] OTHER -> FALSE

date_keeps(h, policy, clock) ==
    LET created_at == dict_get(h.created_at, EmptyStamp) IN
    IF ~truthy(created_at) THEN FALSE
    ELSE LET parsed == fromisoformat(str_replace_Z(created_at)) IN
         IF ~parsed.ok THEN FALSE
         ELSE LET date_obj == replace_tzinfo_none(parsed.value)
                  days == timedelta_days(clock, date_obj)
              IN  CASE policy = "recent" -> days <= RecentDays
                    [] policy = "old" -> days > RecentDays
                    [] OTHER -> FALSE

filter_highlights_by_date(hs, policy, clock) ==
    IF policy = "none" THEN Returned(hs)
    ELSE Returned(SelectSeq(hs, LAMBDA h : date_keeps(h, policy, clock)))

-----------------------------------------------------------------------------
(* The HTTP layer: requests.get / requests.post and raise_for_status.      *)
(* An endpoint is a sequence of pages; a URL is the index of the page it   *)
(* names (1 is the resource's initial endpoint) and 0 stands for None.     *)

Page(results, next) == [results |-> results, next |-> next]

Statuses == {200, 404, 500, 503}

Responses ==
    {[fault |-> "", status |-> s] : s \in Statuses}
    \cup {[fault |-> f, status |-> 0] : f \in {"ConnectionError", "Timeout"}}

\* response.raise_for_status(): HTTPError for 4xx and 5xx
raise_for_status(status) == status >= 400 /\ status < 600

\* requests.get(...) or requests.post(...) followed by raise_for_status():
\* TRUE when a RequestException is raised.  The call is made once.
request_raises(r) == r.fault # "" \/ raise_for_status(r.status)

NoNet == [gets |-> 0, posts |-> 0, last_url |-> 0, last_params |-> 0,
          attempts |-> 0, last |-> [fault |-> "", status |-> 0],
          failed |-> FALSE, returned_at |-> ""]

\* the observation of one GET of `u` with `p` answered by `r`
sent_get(u, p, r) ==
    [net EXCEPT !.gets = @ + 1, !.last_url = u, !.last_params = p,
                !.attempts = 1, !.last = r,
                !.failed = @ \/ request_raises(r)]

\* the observation of one POST answered by `r`
sent_post(r) ==
    [net EXCEPT !.posts = @ + 1, !.attempts = 1, !.last = r,
                !.failed = @ \/ request_raises(r)]

\* the observation at the start of a fetch
begin_fetch == [net EXCEPT !.gets = 0, !.last_url = 0]

EmptyDict == [k \in {} |-> ""]

\* for book in books: all_books[book["id"]] = book["title"]
RECURSIVE store_titles(_, _)
store_titles(d, bs) ==
    IF bs = << >> THEN d
    ELSE LET b == Head(bs) IN
         store_titles([k \in DOMAIN d \cup {b.id} |->
                          IF k = b.id THEN b.title ELSE d[k]],
                      Tail(bs))

\* where get_readwise_highlights returns to
after_highlights(c) ==
    CASE c = "main" -> "analyze_only"
      [] c = "select_and_send_random_highlight" -> "check_highlights"
      [] OTHER -> "returned"

\* where get_readwise_books returns to
after_books(c) ==
    IF c = "select_and_send_random_highlight" THEN "filter" ELSE "returned_books"

\* Faulty variant: the items of the earlier pages are returned
highlights_on_error_partial(acc) == acc

\* except ...: return []
highlights_on_error(acc) == << >>

\* except ...: return {}
books_on_error(acc) == EmptyDict

\* Faulty variant: the limit is reached only when exceeded
limit_reached_strict(lim, acc) == lim # 0 /\ Len(acc) > lim

\* if limit and len(all_highlights) >= limit
limit_reached(lim, acc) == lim # 0 /\ Len(acc) >= lim

\* all_highlights[:limit]
truncate(acc, lim) == SubSeq(acc, 1, lim)

(* One iteration of get_readwise_highlights' loop, with the function's     *)
(* return when the iteration ends the loop (no next URL, the limit is      *)
(* reached) or raises (return []).                                         *)
FetchHighlightsPage ==
    /\ pc = "get_readwise_highlights"
    /\ url # 0
    /\ net.gets < MaxRequests
    /\ \E r \in Responses :
         /\ net' = sent_get(url, params, r)
         /\ IF request_raises(r)
            THEN /\ highlights' = highlights_on_error(all_highlights)
                 /\ pc' = after_highlights(caller)
                 /\ UNCHANGED << url, params, all_highlights >>
            ELSE LET data == server[url]
                     acc == all_highlights \o data.results
                 IN  /\ url' = data.next
                     /\ params' = 0
                     /\ IF limit_reached(limit, acc)
                        THEN /\ all_highlights' = truncate(acc, limit)
                             /\ highlights' = truncate(acc, limit)
                             /\ pc' = after_highlights(caller)
                        ELSE /\ all_highlights' = acc
                             /\ IF data.next = 0
                                THEN /\ highlights' = acc
                                     /\ pc' = after_highlights(caller)
                                ELSE UNCHANGED << highlights, pc >>
    /\ UNCHANGED << argv, env, server, bookServer, now, caller, exc, bot,
                    limit, all_books, books, quality_highlights,
                    random_highlight, book_info, book_title, message, success,
                    exit_status, fin, fnow, fout >>

(* One iteration of get_readwise_books' loop, with the function's return   *)
(* when there is no next URL or the iteration raises (return {}).          *)
FetchBooksPage ==
    /\ pc = "get_readwise_books"
    /\ url # 0
    /\ net.gets < MaxRequests
    /\ \E r \in Responses :
         /\ net' = sent_get(url, params, r)
         /\ IF request_raises(r)
            THEN /\ books' = books_on_error(all_books)
                 /\ pc' = after_books(caller)
                 /\ UNCHANGED << url, params, all_books >>
            ELSE LET data == bookServer[url]
                     acc == store_titles(all_books, data.results)
                 IN  /\ url' = data.next
                     /\ params' = 0
                     /\ all_books' = acc
                     /\ IF data.next = 0
                        THEN /\ books' = acc
                             /\ pc' = after_books(caller)
                        ELSE UNCHANGED << books, pc >>
    /\ UNCHANGED << argv, env, server, bookServer, now, caller, exc, bot,
                    limit, all_highlights, highlights, quality_highlights,
                    random_highlight, book_info, book_title, message, success,
                    exit_status, fin, fnow, fout >>

-----------------------------------------------------------------------------
(* analyze_highlight_distribution: log-only; it raises when a created_at   *)
(* is None (None.replace), ValueError alone being caught.                  *)
analyze_highlight_distribution_raises(hs) ==
    \E i \in 1..Len(hs) : IsNone(dict_get(hs[i].created_at, EmptyStamp))

(* age_normalized_random_selection *)

NoDate == [year |-> 0, quarter |-> 0]

bucket_key(h) ==
    LET parsed == fromisoformat(str_replace_Z(dict_get(h.created_at, EmptyStamp)))
    IN  IF parsed.ok
        THEN [year |-> parsed.value.y, quarter |-> ((parsed.value.m - 1) \div 3) + 1]
        ELSE NoDate

time_buckets(hs) ==
    [k \in {bucket_key(hs[i]) : i \in 1..Len(hs)} |->
        SelectSeq(hs, LAMBDA h : bucket_key(h) = k)]

age_normalized_random_selection_raises(hs) ==
    \E i \in 1..Len(hs) : IsNone(dict_get(hs[i].created_at, EmptyStamp))

\* the highlights random.choice(list(time_buckets.keys())) followed by
\* random.choice(selected_bucket) can return
age_normalized_random_selection(hs) ==
    LET buckets == time_buckets(hs) IN
    UNION {{buckets[k][i] : i \in 1..Len(buckets[k])} : k \in DOMAIN buckets}

\* the highlights random.choice(quality_highlights) can return
random_choice(hs) == {hs[i] : i \in 1..Len(hs)}

-----------------------------------------------------------------------------
(* format_highlight_for_slack, as far as the run depends on it: it raises  *)
(* when the note is None (None.strip()); the message carries the book      *)
(* title, the shown length of the text and whether a note block is added.  *)

NoHighlight == Highlight(0, 0, MissingStr, MissingStr, MissingStamp)
NoMessage == [blocks |-> FALSE, hid |-> 0, title |-> "", text_len |-> 0, note |-> FALSE]
NoBookInfo == [kind |-> "none", title |-> ""]

format_highlight_for_slack_raises(h) == IsNone(dict_get(h.note, EmptyStr))

format_highlight_for_slack(h, title) ==
    LET text == str_strip(dict_get(h.text, Str(0, 17, 0, "")))
        note == str_strip(dict_get(h.note, EmptyStr))
    IN  [blocks |-> TRUE, hid |-> h.id, title |-> title,
         text_len |-> IF str_len(text) > MaxTextLen THEN 997 + 3 ELSE str_len(text),
         note |-> str_len(note) > 0]

-----------------------------------------------------------------------------
(* main() and select_and_send_random_highlight *)

inputs == << argv, env, server, bookServer, now >>
harness == << fin, fnow, fout >>

\* parser.parse_args(): argparse ends the process itself, with status 2 on
\* a usage error and with status 0 after -h/--help.
ParseArgs ==
    /\ pc = "main"
    /\ IF argv.parse = "ok"
       THEN pc' = "construct" /\ UNCHANGED exit_status
       ELSE /\ pc' = "exited"
            /\ exit_status' = IF argv.parse = "help" THEN 0 ELSE 2
    /\ UNCHANGED << inputs, caller, exc, bot, url, params, limit,
                    all_highlights, all_books, highlights, books,
                    quality_highlights, random_highlight, book_info,
                    book_title, message, success, net, harness >>

\* validate_environment()
validate_environment_raises(b) == ~b.readwise_token \/ ~b.slack_webhook_url

\* ReadwiseSlackBot(...), then the call of get_readwise_highlights() that
\* main (--analyze-only) or select_and_send_random_highlight makes first.
Construct ==
    /\ pc = "construct"
    /\ LET b == [readwise_token |-> env.token,
                 slack_webhook_url |-> env.webhook,
                 date_filter |-> argv.date_filter,
                 age_random |-> argv.age_random]
       IN  /\ bot' = b
           /\ IF validate_environment_raises(b)
              THEN /\ exc' = "ValueError: validate_environment"
                   /\ pc' = "except"
                   /\ UNCHANGED << caller, url, params, limit, all_highlights, net >>
              ELSE /\ caller' = IF argv.analyze_only THEN "main"
                                ELSE "select_and_send_random_highlight"
                   /\ pc' = "get_readwise_highlights"
                   /\ url' = 1
                   /\ params' = PageSizeParam
                   /\ limit' = 0
                   /\ all_highlights' = << >>
                   /\ net' = begin_fetch
                   /\ UNCHANGED exc
    /\ UNCHANGED << inputs, all_books, highlights, books,
                    quality_highlights, random_highlight, book_info,
                    book_title, message, success, exit_status, harness >>

\* --analyze-only: analyze_highlight_distribution(highlights); sys.exit(0)
AnalyzeOnly ==
    /\ pc = "analyze_only"
    /\ IF highlights # << >> /\ analyze_highlight_distribution_raises(highlights)
       THEN /\ exc' = "AttributeError: analyze_highlight_distribution"
            /\ pc' = "except"
            /\ UNCHANGED << exit_status, net >>
       ELSE /\ exit_status' = 0
            /\ pc' = "exited"
            /\ net' = [net EXCEPT !.returned_at = "analysis"]
            /\ UNCHANGED exc
    /\ UNCHANGED << inputs, caller, bot, url, params, limit,
                    all_highlights, all_books, highlights, books,
                    quality_highlights, random_highlight, book_info,
                    book_title, message, success, harness >>

\* Faulty variant: the empty fetch is not noticed
not_highlights_never(hs) == FALSE

\* if not highlights
not_highlights(hs) == hs = << >>

\* if not highlights: return False; the analysis; the call of
\* get_readwise_books()
CheckHighlights ==
    /\ pc = "check_highlights"
    /\ IF not_highlights(highlights)
       THEN /\ success' = FALSE
            /\ pc' = "return"
            /\ net' = [net EXCEPT !.returned_at = "no_highlights"]
            /\ UNCHANGED << exc, url, params, all_books >>
       ELSE IF analyze_highlight_distribution_raises(highlights)
       THEN /\ exc' = "AttributeError: analyze_highlight_distribution"
            /\ pc' = "except"
            /\ UNCHANGED << success, url, params, all_books, net >>
       ELSE /\ pc' = "get_readwise_books"
            /\ url' = 1
            /\ params' = PageSizeParam
            /\ all_books' = EmptyDict
            /\ net' = begin_fetch
            /\ UNCHANGED << exc, success >>
    /\ UNCHANGED << inputs, caller, bot, limit, all_highlights, highlights,
                    books, quality_highlights, random_highlight, book_info,
                    book_title, message, exit_status, harness >>

\* the date filter when one is configured, then the quality filter
Filter ==
    /\ pc = "filter"
    /\ LET dated == IF bot.date_filter # "none"
                    THEN filter_highlights_by_date(highlights, bot.date_filter, now)
                    ELSE Returned(highlights)
           quality == filter_highlights_by_quality(dated.value)
       IN  IF bot.date_filter # "none" /\ dated.value = << >>
           THEN /\ highlights' = dated.value
                /\ success' = FALSE
                /\ pc' = "return"
                /\ net' = [net EXCEPT !.returned_at = "no_date_match"]
                /\ UNCHANGED << exc, quality_highlights >>
           ELSE IF quality.raised # ""
           THEN /\ highlights' = dated.value
                /\ exc' = quality.raised
                /\ pc' = "except"
                /\ UNCHANGED << success, quality_highlights, net >>
           ELSE IF quality.value = << >>
           THEN /\ highlights' = dated.value
                /\ quality_highlights' = quality.value
                /\ success' = FALSE
                /\ pc' = "return"
                /\ net' = [net EXCEPT !.returned_at = "no_quality"]
                /\ UNCHANGED exc
           ELSE /\ highlights' = dated.value
                /\ quality_highlights' = quality.value
                /\ pc' = "select"
                /\ UNCHANGED << exc, success, net >>
    /\ UNCHANGED << inputs, caller, bot, url, params, limit,
                    all_highlights, all_books, books, random_highlight,
                    book_info, book_title, message, exit_status, harness >>

\* age_normalized_random_selection or random.choice
Select ==
    /\ pc = "select"
    /\ IF bot.age_random /\ age_normalized_random_selection_raises(quality_highlights)
       THEN /\ exc' = "AttributeError: age_normalized_random_selection"
            /\ pc' = "except"
            /\ UNCHANGED random_highlight
       ELSE /\ \E h \in IF bot.age_random
                        THEN age_normalized_random_selection(quality_highlights)
                        ELSE random_choice(quality_highlights) :
                 random_highlight' = h
            /\ pc' = "resolve"
            /\ UNCHANGED exc
    /\ UNCHANGED << inputs, caller, bot, url, params, limit,
                    all_highlights, all_books, highlights, books,
                    quality_highlights, book_info, book_title, message,
                    success, net, exit_status, harness >>

\* book_info = books.get(book_id, {}): the stored value (a title, a str)
\* or the empty dict
books_get(bs, book_id) ==
    IF book_id \in DOMAIN bs
    THEN [kind |-> "str", title |-> bs[book_id]]
    ELSE [kind |-> "dict", title |-> ""]

\* book_info.get("title", "Unknown Book"): a str has no get
book_info_get_raises(info) == info.kind = "str"

ResolveBook ==
    /\ pc = "resolve"
    /\ LET info == books_get(books, random_highlight.book_id) IN
       /\ book_info' = info
       /\ IF book_info_get_raises(info)
          THEN /\ exc' = "AttributeError: book_info.get"
               /\ pc' = "except"
               /\ UNCHANGED book_title
          ELSE /\ book_title' = "Unknown Book"
               /\ pc' = "format"
               /\ UNCHANGED exc
    /\ UNCHANGED << inputs, caller, bot, url, params, limit,
                    all_highlights, all_books, highlights, books,
                    quality_highlights, random_highlight, message,
                    success, net, exit_status, harness >>

Format ==
    /\ pc = "format"
    /\ IF format_highlight_for_slack_raises(random_highlight)
       THEN /\ exc' = "AttributeError: format_highlight_for_slack"
            /\ pc' = "except"
            /\ UNCHANGED message
       ELSE /\ message' = format_highlight_for_slack(random_highlight, book_title)
            /\ pc' = "send"
            /\ UNCHANGED exc
    /\ UNCHANGED << inputs, caller, bot, url, params, limit,
                    all_highlights, all_books, highlights, books,
                    quality_highlights, random_highlight, book_info,
                    book_title, success, net, exit_status, harness >>

\* send_to_slack(message): one POST; False on any RequestException
SendToSlack ==
    /\ pc = "send"
    /\ \E r \in Responses :
         /\ net' = [sent_post(r) EXCEPT !.returned_at = "sent"]
         /\ success' = ~request_raises(r)
    /\ pc' = "return"
    /\ UNCHANGED << inputs, caller, exc, bot, url, params, limit,
                    all_highlights, all_books, highlights, books,
                    quality_highlights, random_highlight, book_info,
                    book_title, message, exit_status, harness >>

\* Faulty variant: sys.exit(0) whatever the orchestrator returned
exit_code_always_zero(ok) == 0

\* sys.exit(0 if success else 1)
exit_code(ok) == IF ok THEN 0 ELSE 1

Exit ==
    /\ pc = "return"
    /\ exit_status' = exit_code(success)
    /\ pc' = "exited"
    /\ UNCHANGED << inputs, caller, exc, bot, url, params, limit,
                    all_highlights, all_books, highlights, books,
                    quality_highlights, random_highlight, book_info,
                    book_title, message, success, net, harness >>

\* except Exception as e: sys.exit(1)
fatal_exit_code == 1

Fatal ==
    /\ pc = "except"
    /\ exit_status' = fatal_exit_code
    /\ pc' = "exited"
    /\ UNCHANGED << inputs, caller, exc, bot, url, params, limit,
                    all_highlights, all_books, highlights, books,
                    quality_highlights, random_highlight, book_info,
                    book_title, message, success, net, harness >>

-----------------------------------------------------------------------------
(* Inputs *)

Now0 == [y |-> 2024, m |-> 3, d |-> 1, h |-> 12, tzinfo |-> "none"]
Now1 == [y |-> 2023, m |-> 3, d |-> 1, h |-> 0, tzinfo |-> "none"]

Book(id, title, author) == [id |-> id, title |-> title, author |-> author]

Library ==
    << Book(1, "Meditations", "Marcus Aurelius"),
       Book(2, "Getting Started", " READWISE Team ") >>

Marked == Str(0, 40, 0, "by Readwise Team")
Padded == Str(1, 19, 1, "")

\* the user's highlights a run can meet
Pool ==
    << Highlight(1, 1, GoodText, EmptyStr, Iso(2024, 2, 20, 9, "Z")),
       Highlight(2, 2, Padded, EmptyStr, Iso(2021, 12, 31, 9, "")),
       Highlight(3, 0, Marked, MissingStr, MissingStamp),
       Highlight(4, 2, GoodText, Str(0, 5, 0, ""), Iso(2021, 12, 31, 9, "+05:00")),
       Highlight(5, 0, GoodText, NullStr, Iso(2024, 1, 15, 9, "")),
       Highlight(6, 0, GoodText, EmptyStr, NullStamp),
       Highlight(7, 1, NullStr, EmptyStr, Iso(2022, 3, 2, 11, "Z")) >>

RunSize == 3          \* most highlights the account of a run holds
RunPageSize == 2      \* items the endpoint of a run puts on a page

Min(a, b) == IF a < b THEN a ELSE b

\* the server's paging of `items`, `size` to a page, each page but the last
\* carrying the URL of the next
Paginate(items, size) ==
    LET n == IF Len(items) = 0 THEN 1 ELSE (Len(items) + size - 1) \div size
    IN  [i \in 1..n |->
            Page(SubSeq(items, (i - 1) * size + 1, Min(i * size, Len(items))),
                 IF i < n THEN i + 1 ELSE 0)]

RECURSIVE Ascending(_)
Ascending(S) ==
    IF S = {} THEN << >>
    ELSE LET least == CHOOSE x \in S : \A y \in S : x <= y
         IN  << least >> \o Ascending(S \ {least})

RunServers ==
    {Paginate([i \in 1..Cardinality(S) |-> Pool[Ascending(S)[i]]], RunPageSize) :
        S \in {T \in SUBSET (1..Len(Pool)) : Cardinality(T) <= RunSize}}

RunBookServers ==
    {Paginate(SubSeq(Library, 1, n), 1) : n \in 0..Len(Library)}

EmptyServer == << Page(<< >>, 0) >>

\* --test-format only logs a line and is left out
DefaultArgv == [parse |-> "ok", date_filter |-> "none", age_random |-> FALSE,
                analyze_only |-> FALSE]

GoodArgvs ==
    [parse : {"ok"}, date_filter : {"none", "recent", "old"},
     age_random : BOOLEAN, analyze_only : BOOLEAN]

BadArgvs == {[DefaultArgv EXCEPT !.parse = p] : p \in {"usage_error", "help"}}

GoodEnv == [token |-> TRUE, webhook |-> TRUE]
BadEnvs == {[token |-> FALSE, webhook |-> TRUE], [token |-> TRUE, webhook |-> FALSE],
            [token |-> FALSE, webhook |-> FALSE]}

NoBot == [readwise_token |-> FALSE, slack_webhook_url |-> FALSE,
          date_filter |-> "none", age_random |-> FALSE]

FilterOps == {"recent", "old", "none", "quality", "age_random"}
NoResults == [op \in FilterOps |-> NotRun]

Locals0 ==
    /\ exc = "" /\ bot = NoBot
    /\ all_highlights = << >> /\ all_books = EmptyDict
    /\ highlights = << >> /\ books = EmptyDict /\ quality_highlights = << >>
    /\ random_highlight = NoHighlight /\ book_info = NoBookInfo
    /\ book_title = "" /\ message = NoMessage /\ success = FALSE
    /\ net = NoNet /\ exit_status = -1

Harness0 == fin = << >> /\ fnow = Now0 /\ fout = NoResults

-----------------------------------------------------------------------------
(* A run of main() *)

Init ==
    /\ Locals0 /\ Harness0
    /\ pc = "main" /\ caller = "main" /\ now = Now0
    /\ url = 0 /\ params = 0 /\ limit = 0
    /\ \/ /\ argv \in BadArgvs \cup {DefaultArgv}
          /\ env \in BadEnvs
          /\ server = EmptyServer /\ bookServer = EmptyServer
       \/ /\ argv \in BadArgvs
          /\ env = GoodEnv
          /\ server = EmptyServer /\ bookServer = EmptyServer
       \/ /\ argv \in GoodArgvs
          /\ env = GoodEnv
          /\ server \in RunServers
          /\ bookServer \in RunBookServers

Next ==
    \/ ParseArgs
    \/ Construct
    \/ FetchHighlightsPage
    \/ AnalyzeOnly
    \/ CheckHighlights
    \/ FetchBooksPage
    \/ Filter
    \/ Select
    \/ ResolveBook
    \/ Format
    \/ SendToSlack
    \/ Exit
    \/ Fatal

Spec == Init /\ [][Next]_vars

-----------------------------------------------------------------------------
(* get_readwise_highlights(limit) and get_readwise_books() called directly *)
(* against endpoints that page correctly or echo the requested URL as the  *)
(* next one.                                                               *)

RECURSIVE SumTo(_, _)
SumTo(f, i) == IF i = 0 THEN 0 ELSE f[i] + SumTo(f, i - 1)

Item(k) == Highlight(k, 0, GoodText, EmptyStr, MissingStamp)

Titles == << "T1", "T2", "T3", "T4", "T5", "T6", "T7", "T8", "T9", "T10",
             "T11", "T12", "T13", "T14", "T15", "T16" >>

\* book k; the ids repeat so that a later record overwrites an earlier one
BookItem(k) == Book(((k - 1) % 3) + 1, Titles[k], "")

Layouts ==
    UNION {[sizes : [1..n -> 0..MaxPageSize], echo : [1..n -> BOOLEAN]] :
              n \in 1..MaxPages}

Endpoint(layout, kind) ==
    [i \in DOMAIN layout.sizes |->
        Page([j \in 1..layout.sizes[i] |->
                 IF kind = "books" THEN BookItem(SumTo(layout.sizes, i - 1) + j)
                 ELSE Item(SumTo(layout.sizes, i - 1) + j)],
             IF layout.echo[i] THEN i
             ELSE IF i < Len(layout.sizes) THEN i + 1 ELSE 0)]

InitFetch ==
    /\ Locals0 /\ Harness0
    /\ argv = DefaultArgv /\ env = GoodEnv /\ now = Now0
    /\ caller = "direct"
    /\ url = 1 /\ params = PageSizeParam
    /\ \/ /\ pc = "get_readwise_highlights"
          /\ server \in {Endpoint(l, "highlights") : l \in Layouts}
          /\ bookServer = EmptyServer
          /\ limit \in 0..MaxLimit
       \/ /\ pc = "get_readwise_books"
          /\ server = EmptyServer
          /\ bookServer \in {Endpoint(l, "books") : l \in Layouts}
          /\ limit = 0

NextFetch ==
    \/ FetchHighlightsPage
    \/ FetchBooksPage

SpecFetch == InitFetch /\ [][NextFetch]_vars

-----------------------------------------------------------------------------
(* filter_highlights_by_date and filter_highlights_by_quality applied      *)
(* directly to a list.                                                     *)

ApplyFilter(op, result) ==
    /\ pc = "apply"
    /\ ~fout[op].done
    /\ fout' = [fout EXCEPT ![op] = result]
    /\ UNCHANGED << runvars, fin, fnow >>

ApplyDateRecent == ApplyFilter("recent", filter_highlights_by_date(fin, "recent", fnow))
ApplyDateOld == ApplyFilter("old", filter_highlights_by_date(fin, "old", fnow))
ApplyDateNone == ApplyFilter("none", filter_highlights_by_date(fin, "none", fnow))
ApplyQuality == ApplyFilter("quality", filter_highlights_by_quality(fin))

\* the created_at values a highlight can carry
Stamps ==
    {MissingStamp, NullStamp, EmptyStamp, GarbageStamp}
    \cup {Iso(2022, 3, 1, 12, tz) : tz \in {"", "Z"}}
    \cup {Iso(2022, 3, 2, 11, tz) : tz \in {"", "+05:00"}}
    \cup {Iso(2021, 2, 27, 23, "Z"), Iso(2022, 3, 2, 13, ""), Iso(2024, 3, 2, 0, "Z")}

\* the text values a highlight can carry
Texts ==
    {MissingStr, NullStr, EmptyStr, Str(3, 0, 0, ""), Str(0, 19, 0, ""),
     Padded, Str(0, 20, 0, ""), Str(2, 20, 1, ""), GoodText, Marked}

Dated(i, stamp) == Highlight(i, 0, GoodText, EmptyStr, stamp)
Worded(i, text) == Highlight(i, 0, text, EmptyStr, Iso(2024, 2, 20, 9, "Z"))

\* the lists of at most MaxList highlights, the i-th with id i
DatedLists ==
    UNION {{[i \in 1..n |-> Dated(i, f[i])] : f \in [1..n -> Stamps]} : n \in 0..MaxList}

WordedLists ==
    UNION {{[i \in 1..n |-> Worded(i, f[i])] : f \in [1..n -> Texts]} : n \in 0..MaxList}

HarnessRun ==
    /\ Locals0
    /\ argv = DefaultArgv /\ env = GoodEnv /\ now = Now0
    /\ server = EmptyServer /\ bookServer = EmptyServer
    /\ caller = "direct" /\ pc = "apply"
    /\ url = 0 /\ params = 0 /\ limit = 0
    /\ fout = NoResults

InitDate ==
    /\ HarnessRun
    /\ fnow \in {Now0, Now1}
    /\ fin \in DatedLists

NextDate ==
    \/ ApplyDateRecent
    \/ ApplyDateOld
    \/ ApplyDateNone

SpecDate == InitDate /\ [][NextDate]_vars

InitQuality ==
    /\ HarnessRun
    /\ fnow = Now0
    /\ fin \in WordedLists

NextQuality == ApplyQuality

SpecQuality == InitQuality /\ [][NextQuality]_vars

-----------------------------------------------------------------------------
(* age_normalized_random_selection applied directly to a list.  The result *)
(* records the buckets built, the key random.choice drew from              *)
(* list(time_buckets.keys()) and the highlight random.choice drew from     *)
(* that bucket.                                                            *)

NoKey == [year |-> -1, quarter |-> 0]
NoBuckets == [k \in {} |-> << >>]

\* return None
NoSelection ==
    [time_buckets |-> NoBuckets, selected_bucket_key |-> NoKey,
     selected_highlight |-> NoHighlight]

\* the highlights random.choice(selected_bucket) can return
bucket_choices(buckets, k) == {buckets[k][i] : i \in 1..Len(buckets[k])}

\* the results age_normalized_random_selection can return on a list none of
\* whose created_at is None
age_normalized_selections(hs) ==
    IF hs = << >> THEN {NoSelection}
    ELSE LET buckets == time_buckets(hs) IN
         IF DOMAIN buckets = {}
         THEN {[time_buckets |-> buckets, selected_bucket_key |-> NoKey,
                selected_highlight |-> h] : h \in random_choice(hs)}
         ELSE UNION {{[time_buckets |-> buckets, selected_bucket_key |-> k,
                       selected_highlight |-> h] :
                          h \in bucket_choices(buckets, k)} : k \in DOMAIN buckets}

ApplyAgeRandom ==
    /\ pc = "apply"
    /\ ~fout["age_random"].done
    /\ IF fin # << >> /\ age_normalized_random_selection_raises(fin)
       THEN fout' = [fout EXCEPT !["age_random"] =
                        Raised("AttributeError: age_normalized_random_selection")]
       ELSE \E r \in age_normalized_selections(fin) :
                fout' = [fout EXCEPT !["age_random"] = Returned(r)]
    /\ UNCHANGED << runvars, fin, fnow >>

\* created_at values over the four quarters of a year and its neighbours
SelectStamps ==
    {MissingStamp, NullStamp, EmptyStamp, GarbageStamp,
     Iso(2022, 3, 31, 23, "Z"), Iso(2022, 4, 1, 0, ""),
     Iso(2022, 6, 30, 23, "+05:00"), Iso(2022, 7, 1, 0, "Z"),
     Iso(2022, 12, 31, 23, "+05:00"), Iso(2023, 1, 1, 0, "")}

SelectLists ==
    UNION {{[i \in 1..n |-> Dated(i, f[i])] : f \in [1..n -> SelectStamps]} :
              n \in 0..MaxSelect}

InitSelect ==
    /\ HarnessRun
    /\ fnow = Now0
    /\ fin \in SelectLists

NextSelect == ApplyAgeRandom

SpecSelect == InitSelect /\ [][NextSelect]_vars

-----------------------------------------------------------------------------
(* Both filter stages applied to lists of records whose text and           *)
(* created_at are each missing, null, malformed or well-formed.            *)

StageTexts == {MissingStr, NullStr, Str(0, 19, 0, ""), GoodText}

StageStamps ==
    {MissingStamp, NullStamp, EmptyStamp, GarbageStamp,
     Iso(2024, 2, 20, 9, "Z"), Iso(2021, 2, 27, 23, "")}

Record(i, text, stamp) == Highlight(i, 0, text, EmptyStr, stamp)

StageLists ==
    UNION {{[i \in 1..n |-> Record(i, f[i][1], f[i][2])] :
               f \in [1..n -> StageTexts \X StageStamps]} : n \in 0..MaxStages}

InitStages ==
    /\ HarnessRun
    /\ fnow = Now0
    /\ fin \in StageLists

NextStages ==
    \/ ApplyDateRecent
    \/ ApplyDateOld
    \/ ApplyDateNone
    \/ ApplyQuality

SpecStages == InitStages /\ [][NextStages]_vars

-----------------------------------------------------------------------------
(* Properties *)

Range(seq) == {seq[i] : i \in 1..Len(seq)}

AnalysisCompleted == argv.analyze_only /\ net.returned_at = "analysis"
SentOk == net.returned_at = "sent" /\ success

\* C1 (as stated): every run of main() exits with status 0 exactly when the
\* --analyze-only analysis completed or send_to_slack returned true, and
\* with status 1 in every other outcome.
C1_ExitStatusEveryRun ==
    pc = "exited" =>
        /\ exit_status \in {0, 1}
        /\ exit_status = 0 <=> (AnalysisCompleted \/ SentOk)

\* C1 (amended): every run of main() whose command line the argument parser
\* accepts (no usage error, which exits 2, and no -h/--help, which exits 0)
\* exits with status 0 exactly when the --analyze-only analysis completed or
\* send_to_slack returned true, and with status 1 otherwise.
C1_ExitStatusParsedRun ==
    (pc = "exited" /\ argv.parse = "ok") =>
        /\ exit_status \in {0, 1}
        /\ exit_status = 0 <=> (AnalysisCompleted \/ SentOk)

C1_Witness ==
    pc = "exited" /\ argv.parse = "ok" /\ exit_status = 0 /\ SentOk /\ net.posts = 1

\* C2: when the orchestrator's highlights fetch returns an empty list, it
\* returns False at once, the process exits with status 1 and no POST to the
\* webhook is made in that run.
C2_EmptyFetchFails ==
    /\ [](net.returned_at = "no_highlights" =>
            /\ ~success
            /\ net.posts = 0
            /\ pc \in {"return", "exited"}
            /\ pc = "exited" => exit_status = 1)
    /\ [][(pc = "check_highlights" /\ highlights = << >>) =>
            (pc' = "return" /\ net'.returned_at = "no_highlights")]_vars

C2_Witness ==
    /\ pc = "exited" /\ net.returned_at = "no_highlights"
    /\ exit_status = 1 /\ net.posts = 0 /\ net.failed

RECURSIVE ConcatPages(_, _)
ConcatPages(srv, n) ==
    IF n = 0 THEN << >> ELSE ConcatPages(srv, n - 1) \o srv[n].results

IsChain(srv) ==
    \A i \in 1..Len(srv) : srv[i].next = IF i < Len(srv) THEN i + 1 ELSE 0

\* the first page with which `lim` items are accumulated, the last page if none
PagesNeeded(srv, lim) ==
    LET enough == {k \in 1..Len(srv) : Len(ConcatPages(srv, k)) >= lim}
    IN  IF enough = {} THEN Len(srv)
        ELSE CHOOSE k \in enough : \A j \in enough : k <= j

\* C3: against pages chained by their next cursors, with no failing request,
\* get_readwise_highlights returns the concatenation of the pages' results in
\* server order, each item once; with a limit set and reached it requests no
\* further page and returns exactly the first limit items.
C3_PaginationConcatenates ==
    (pc = "returned" /\ IsChain(server) /\ ~net.failed) =>
        LET all == ConcatPages(server, Len(server))
            cut == limit # 0 /\ Len(all) >= limit
        IN  /\ highlights = IF cut THEN SubSeq(all, 1, limit) ELSE all
            /\ \A k \in 1..Len(highlights) : highlights[k].id = k
            /\ Len(highlights) = IF cut THEN limit ELSE Len(all)
            /\ net.gets = IF limit # 0 THEN PagesNeeded(server, limit) ELSE Len(server)

C3_Witness ==
    /\ pc = "returned" /\ IsChain(server) /\ ~net.failed
    /\ limit # 0 /\ Len(highlights) = limit
    /\ Len(ConcatPages(server, Len(server))) > limit
    /\ net.gets < Len(server)

\* C4: the pagination loops treat a next cursor identical to the URL just
\* requested as end-of-stream: the client is never about to request again
\* the URL it has just requested.
C4_RepeatedCursorEndsFetch ==
    (pc \in {"get_readwise_highlights", "get_readwise_books"} /\ url # 0) =>
        url # net.last_url

\* C5: once the request for any page has failed, the fetch has returned the
\* empty result (no items of earlier pages) and raised nothing.
C5_FailedFetchReturnsEmpty ==
    net.failed =>
        /\ pc \in {"returned", "returned_books"}
        /\ highlights = << >>
        /\ books = EmptyDict
        /\ exc = ""

C5_Witness ==
    /\ pc = "returned" /\ net.failed /\ net.gets >= 2
    /\ all_highlights # << >> /\ highlights = << >>

\* C6: resolving the selected highlight's book never fails the run: the title
\* is the book's when its id is in the fetched books, "Unknown Book" when it
\* is not, and the run proceeds to format and send.
C6_BookResolutionNeverFails ==
    /\ exc # "AttributeError: book_info.get"
    /\ pc \in {"format", "send"} =>
          book_title = IF random_highlight.book_id \in DOMAIN books
                       THEN books[random_highlight.book_id]
                       ELSE "Unknown Book"

Lower(phrase) ==
    CASE phrase = "by Readwise Team" -> "by readwise team"
      [] phrase = "BY READWISE TEAM" -> "by readwise team"
      [] phrase = " READWISE Team " -> " readwise team "
      [] phrase = "Marcus Aurelius" -> "marcus aurelius"
      [] OTHER -> phrase

Trim(name) == IF name = " readwise team " THEN "readwise team" ELSE name

ContainsPhrase(field) ==
    field.kind = "str" /\ Lower(field.marker) = "by readwise team"

ServedBooks == UNION {Range(bookServer[i].results) : i \in 1..Len(bookServer)}

IsNoise(h) ==
    \/ ContainsPhrase(h.text)
    \/ ContainsPhrase(h.note)
    \/ \E b \in ServedBooks : b.id = h.book_id /\ Trim(Lower(b.author)) = "readwise team"

\* C7: no noise highlight (marker phrase in its text or note, or a book by
\* the placeholder author) is ever selected or sent.
C7_NoNoiseSelected ==
    /\ random_highlight # NoHighlight => ~IsNoise(random_highlight)
    /\ net.posts > 0 => ~IsNoise(random_highlight)

Parsable(c) == c.kind = "iso"

\* whole days between the timestamp's wall-clock reading and the clock
AgeDays(c, clock) ==
    (((toordinal(clock) - toordinal(c)) * 24) + clock.h - c.h) \div 24

IsSublist(sub, seq) ==
    \E f \in [1..Len(sub) -> 1..Len(seq)] :
        /\ \A i \in 1..Len(sub) : sub[i] = seq[f[i]]
        /\ \A i, j \in 1..Len(sub) : i < j => f[i] < f[j]

\* C8: on one input list and one clock, 'recent' and 'old' return disjoint
\* sublists; a highlight with a parsable timestamp is in exactly one (age in
\* whole days <= 730 in 'recent', > 730 in 'old'); one with a missing or
\* unparsable timestamp is in neither; with no policy the input is returned.
C8_DatePoliciesPartition ==
    /\ (fout["recent"].done /\ fout["old"].done) =>
          /\ fout["recent"].raised = "" /\ fout["old"].raised = ""
          /\ IsSublist(fout["recent"].value, fin)
          /\ IsSublist(fout["old"].value, fin)
          /\ \A i \in 1..Len(fin) :
                LET h == fin[i]
                    inRecent == h \in Range(fout["recent"].value)
                    inOld == h \in Range(fout["old"].value)
                IN  /\ ~(inRecent /\ inOld)
                    /\ Parsable(h.created_at) =>
                          /\ inRecent <=> AgeDays(h.created_at, fnow) <= 730
                          /\ inOld <=> AgeDays(h.created_at, fnow) > 730
                    /\ ~Parsable(h.created_at) => (~inRecent /\ ~inOld)
    /\ fout["none"].done => (fout["none"].raised = "" /\ fout["none"].value = fin)

C8_Witness ==
    /\ fout["recent"].done /\ fout["old"].done /\ fout["none"].done
    /\ Len(fin) = 2
    /\ Len(fout["recent"].value) = 1 /\ Len(fout["old"].value) = 1
    /\ AgeDays(fout["recent"].value[1].created_at, fnow) = 730

Retryable(r) == r.fault = "ConnectionError" \/ r.status \in {500, 502, 503, 504}

\* C9: a GET or POST reported as failed after a connection failure or an
\* HTTP 500/502/503/504 was attempted 3 times; one answered with another
\* 4xx status was attempted once.
C9_RetriedThreeTimes ==
    (net.attempts > 0 /\ request_raises(net.last)) =>
        /\ Retryable(net.last) => net.attempts = 3
        /\ (net.last.fault = "" /\ net.last.status \in 400..499) => net.attempts = 1

TrimmedLen(h) == IF h.text.kind = "str" THEN h.text.core ELSE 0

\* C10: filter_highlights_by_quality returns exactly the highlights of its
\* input whose trimmed text has length >= 20, in their order and unmodified.
C10_QualityFilterExact ==
    fout["quality"].done =>
        /\ fout["quality"].raised = ""
        /\ fout["quality"].value = SelectSeq(fin, LAMBDA h : TrimmedLen(h) >= 20)

QuarterOf(m) ==
    CASE m \in 1..3 -> 1
      [] m \in 4..6 -> 2
      [] m \in 7..9 -> 3
      [] m \in 10..12 -> 4

\* the bucket a highlight belongs in: the quarter of its timestamp's
\* wall-clock reading, or 'no-date'
ExpectedBucket(h) ==
    IF Parsable(h.created_at)
    THEN [year |-> h.created_at.y, quarter |-> QuarterOf(h.created_at.m)]
    ELSE NoDate

SelectionDone == fout["age_random"].done
SelectionPending == pc = "apply" /\ ~fout["age_random"].done

\* C11: age_normalized_random_selection returns no selection and no error
\* on an empty list; on a non-empty list every highlight is in exactly one
\* bucket (its creation quarter, or 'no-date'), no bucket is empty, the key
\* drawn is one of the bucket keys and the highlight returned is a member
\* of that bucket and of the input; every bucket key and every highlight of
\* the input is a possible draw.
C11_AgeNormalizedSelection ==
    /\ SelectionDone =>
          /\ fout["age_random"].raised = ""
          /\ fin = << >> => fout["age_random"].value = NoSelection
          /\ fin # << >> =>
                LET v == fout["age_random"].value
                    tb == v.time_buckets
                IN  /\ \A k \in DOMAIN tb : tb[k] # << >> /\ IsSublist(tb[k], fin)
                    /\ \A i \in 1..Len(fin) :
                          {k \in DOMAIN tb : fin[i] \in Range(tb[k])}
                              = {ExpectedBucket(fin[i])}
                    /\ v.selected_bucket_key \in DOMAIN tb
                    /\ v.selected_highlight \in Range(tb[v.selected_bucket_key])
                    /\ v.selected_highlight \in Range(fin)
    /\ (SelectionPending /\ fin # << >>) =>
          /\ \A i \in 1..Len(fin) :
                ENABLED (/\ ApplyAgeRandom
                         /\ fout'["age_random"].raised = ""
                         /\ fout'["age_random"].value.selected_highlight = fin[i])
          /\ \A i \in 1..Len(fin) :
                ENABLED (/\ ApplyAgeRandom
                         /\ fout'["age_random"].raised = ""
                         /\ fout'["age_random"].value.selected_bucket_key
                                = ExpectedBucket(fin[i]))

DateStages == {"recent", "old", "none"}

\* a stage returned a list drawn from its input, in order, and raised nothing
ReturnedSublist(op) ==
    /\ fout[op].raised = ""
    /\ IsSublist(fout[op].value, fin)

\* C12: each filter stage, applied to any list (records with a missing or
\* null text or created_at, or an unparsable created_at, included), returns
\* a sublist of its input and raises nothing; the output of a date policy
\* holds no record without a parsable timestamp and the output of the
\* quality filter holds no record without a text.
C12_FilterStagesTotal ==
    /\ \A op \in DateStages \cup {"quality"} : fout[op].done => ReturnedSublist(op)
    /\ \A op \in {"recent", "old"} :
          fout[op].done =>
              \A i \in 1..Len(fout[op].value) : Parsable(fout[op].value[i].created_at)
    /\ fout["quality"].done =>
          \A i \in 1..Len(fout["quality"].value) :
              fout["quality"].value[i].text.kind = "str"

====
